---- MODULE Spec2Model ----
(***************************************************************************)
(* The two example scripts of the repository as one state machine:         *)
(*   "cls"  examples/sequence_classification/mlflow_peft_no_lora_accelerate.py *)
(*   "ada"  examples/conditional_generation/mlflow_peft_adalora_seq2seq.py *)
(* Each run of a script is a straight-line program; pc is its position.    *)
(* The checkpoint file outlives a run of "cls", so a run may be followed   *)
(* by another run that finds the file the earlier one wrote.               *)
(*                                                                         *)
(* The numeric internals of the model, the optimizer and the dataset are   *)
(* opaque library values: they are modelled as small integers with         *)
(* deterministic update functions (a fixed seed), so that two states or    *)
(* two losses are equal only when the program makes them so.               *)
(* Argument values are fixed when the arguments are parsed; the model      *)
(* draws each one at the program point that first reads it.                *)
(***************************************************************************)
EXTENDS Integers, Sequences, FiniteSets, TLC

VARIABLES
    script,             \* which script this run executes
    pc,                 \* position of the run in the script
    args,               \* cls: the parsed command line
    num_processes,      \* cls: accelerator.num_processes
    len_train,          \* len(train_dataloader)
    len_train_dataset,  \* ada: number of training examples
    len_eval_dataset,   \* number of validation examples
    epoch, epoch_it,    \* the loop variable, and the position of range()
    step,               \* the enumerate() index of the running loop
    loss, total_loss,
    model,              \* model parameter state
    optimizer,          \* optimizer state: moments and current lr
    lr_scheduler,       \* scheduler state: last_epoch and num_training_steps
    grads,              \* the gradients: of = 0 when zeroed, else the 1-based step that wrote them
    calls,              \* number of calls of each phase made in this run
    total_steps,        \* cls: run-wide step number
    samples_seen,       \* cls: evaluation trim counter
    fs,                 \* cls: content of the checkpoint path
    fs_ops,             \* cls: file system calls made by this run
    mlflow,             \* the reporter: the calls it received in this run
    global_step,        \* ada
    total_step,         \* ada: peft_config.total_step
    rank,               \* ada: rank allocation of the adapted layers
    realloc,            \* ada: the global steps at which the budget was reallocated
    alloc_arg,          \* ada: argument of the latest update_and_allocate call
    len_eval,           \* ada: len(eval_dataloader)
    eval_loss, eval_preds,
    epoch_runtime, samples_per_second, steps_per_second,
    avg_loss, eval_epoch_loss, train_epoch_loss,
    total               \* ada: pairs graded by the accuracy loop

runVars  == <<script, pc, args, num_processes, len_train, len_eval_dataset>>
loopVars == <<epoch, epoch_it, step, loss, total_loss, total_steps>>
nnVars   == <<model, optimizer, lr_scheduler, grads, calls>>
ioVars   == <<fs, fs_ops, mlflow>>
evalVars == <<samples_seen, eval_loss, eval_preds, total>>
adaVars  == <<global_step, total_step, rank, realloc, alloc_arg, len_train_dataset, len_eval>>
aggVars  == <<epoch_runtime, samples_per_second, steps_per_second,
              avg_loss, eval_epoch_loss, train_epoch_loss>>
vars == <<runVars, loopVars, nnVars, ioVars, evalVars, adaVars, aggVars>>

----------------------------------------------------------------------------
\* Bounds of the model

MaxEpochs       == 2    \* cls: --num_train_epochs ranges over 1..MaxEpochs
MaxTrainBatches == 2    \* cls: len(train_dataloader) ranges over 1..MaxTrainBatches
MaxLogInterval  == 2    \* cls: --log_interval ranges over 1..MaxLogInterval
MaxEvalSet      == 17   \* cls: validation set sizes 1..MaxEvalSet
MaxEvalBatch    == 8    \* cls: --per_device_eval_batch_size 1..MaxEvalBatch
MaxWorkers      == 2    \* cls: accelerator.num_processes 1..MaxWorkers
SmallEvalSet    == 2    \* cls: validation set sizes tried after every training run
StateMod        == 3    \* size of the abstract parameter and moment domains
MaxDataset      == 20   \* ada: dataset sizes 2..MaxDataset
LongRunDataset  == 2220 \* ada: the dataset size of the long run (250 batches an epoch)
MaxRuntime      == 2    \* ada: an epoch lasts 1..MaxRuntime time units

----------------------------------------------------------------------------
\* Constants of the AdaLoRA script

num_epochs == 8
batch_size == 8
init_r     == 12
target_r   == 8
tinit      == 200
tfinal     == 1000
deltaT     == 10

----------------------------------------------------------------------------
\* Values

None == 0 - 1           \* Python's None, and an unassigned variable

Min(a, b) == IF a < b THEN a ELSE b
Max(a, b) == IF a > b THEN a ELSE b
CeilDiv(a, b) == (a + b - 1) \div b

NoFile == [exists |-> FALSE]

Ratio(a, b) == [num |-> a, den |-> b]       \* the float a / b
NoRatio == Ratio(0, 1)
RatioEq(r, a, b) == r.num * b = a * r.den   \* r = a / b

NoCalls == [forward |-> 0, backward |-> 0, optimizer_step |-> 0,
            scheduler_step |-> 0, update_and_allocate |-> 0, zero_grad |-> 0]

Called(name) == [calls EXCEPT ![name] = @ + 1]

\* One call received by the reporter.  value is kept for the samples of the step
\* loss only (0 otherwise); n is the number of graded pairs behind an accuracy
\* sample (0 for any other call).
Event(op, name, st, v, n) == [op |-> op, name |-> name, step |-> st, value |-> v, n |-> n]

----------------------------------------------------------------------------
\* The framework, abstractly

\* The batch a dataloader yields at its 0-based step g: one of two abstract batches.
DataAt(g) == g % 2

\* outputs.loss of a forward pass of parameters m on batch b.
LossFn(m, b) == ((m + b) % StateMod) + 1

\* A freshly constructed optimizer for a schedule of T steps: the LambdaLR
\* constructor sets lr to its value at step 0.
LrLambda(T, k) == Max(0, T - k)
FreshOptimizer(T) == [state |-> 0, lr |-> LrLambda(T, 0)]
FreshScheduler(T) == [last_epoch |-> 0, num_training_steps |-> T]

\* optimizer.step(): the moments absorb the gradient, the parameters move by lr * moments.
OptMoments(o, g) == (o.state + g.val) % StateMod
OptParams(m, o, g) == (m + o.lr * OptMoments(o, g)) % StateMod

\* The gradients: zeroed, or what backward() leaves for loss l at 1-based step t.
NoGrads == [of |-> 0, val |-> 0]
GradOf(t, l) == [of |-> t, val |-> l]

\* The statements with the gradients zeroed too early.
StepOrderZeroFirst(s) ==
    IF s = "ada"
    THEN <<"forward", "backward", "optimizer_step", "scheduler_step",
           "zero_grad", "update_and_allocate">>
    ELSE <<"forward", "backward", "zero_grad", "optimizer_step", "scheduler_step">>
\* The statements of one training step, in program order.
StepOrder(s) ==
    IF s = "ada"
    THEN <<"forward", "backward", "optimizer_step", "scheduler_step",
           "update_and_allocate", "zero_grad">>
    ELSE <<"forward", "backward", "optimizer_step", "scheduler_step", "zero_grad">>

\* The statement that follows statement p of a training step.
PhaseAfter(s, p) ==
    LET o == StepOrder(s)
        i == CHOOSE k \in 1..Len(o) : o[k] = p
    IN o[i + 1]

\* The parameter logged before the session is opened.
StartRunEventsParamFirst ==
    <<Event("log_param", "num_params", None, 0, 0), Event("start_run", "", None, 0, 0)>>
\* mlflow.start_run(), then mlflow.log_param('num_params', num_params).
StartRunEvents ==
    <<Event("start_run", "", None, 0, 0), Event("log_param", "num_params", None, 0, 0)>>

----------------------------------------------------------------------------
\* A run before its first statement.  The checkpoint path keeps its content.

FlagValues == {"True", "False"}

NoArgs == [log_interval |-> 0, num_train_epochs |-> 0, load_checkpoint |-> "?",
           save_checkpoint |-> "?", per_device_eval_batch_size |-> 0]

Blank(s, f) ==
    /\ script = s /\ pc = "start"
    /\ args = NoArgs /\ num_processes = 0 /\ len_train = 0 /\ len_eval_dataset = 0
    /\ epoch = None /\ epoch_it = 0 /\ step = None
    /\ loss = None /\ total_loss = 0 /\ total_steps = 0
    /\ model = 0 /\ optimizer = FreshOptimizer(0) /\ lr_scheduler = FreshScheduler(0)
    /\ grads = NoGrads /\ calls = NoCalls
    /\ fs = f /\ fs_ops = <<>> /\ mlflow = <<>>
    /\ samples_seen = 0 /\ eval_loss = 0 /\ eval_preds = 0 /\ total = 0
    /\ global_step = 0 /\ total_step = 0 /\ rank = 0 /\ realloc = {} /\ alloc_arg = None
    /\ len_train_dataset = 0 /\ len_eval = 0
    /\ epoch_runtime = 0
    /\ samples_per_second = NoRatio /\ steps_per_second = NoRatio
    /\ avg_loss = NoRatio /\ eval_epoch_loss = NoRatio /\ train_epoch_loss = NoRatio

\* The same state as the next state of an action.
Restart(s, f) ==
    /\ script' = s /\ pc' = "start"
    /\ args' = NoArgs /\ num_processes' = 0 /\ len_train' = 0 /\ len_eval_dataset' = 0
    /\ epoch' = None /\ epoch_it' = 0 /\ step' = None
    /\ loss' = None /\ total_loss' = 0 /\ total_steps' = 0
    /\ model' = 0 /\ optimizer' = FreshOptimizer(0) /\ lr_scheduler' = FreshScheduler(0)
    /\ grads' = NoGrads /\ calls' = NoCalls
    /\ fs' = f /\ fs_ops' = <<>> /\ mlflow' = <<>>
    /\ samples_seen' = 0 /\ eval_loss' = 0 /\ eval_preds' = 0 /\ total' = 0
    /\ global_step' = 0 /\ total_step' = 0 /\ rank' = 0 /\ realloc' = {} /\ alloc_arg' = None
    /\ len_train_dataset' = 0 /\ len_eval' = 0
    /\ epoch_runtime' = 0
    /\ samples_per_second' = NoRatio /\ steps_per_second' = NoRatio
    /\ avg_loss' = NoRatio /\ eval_epoch_loss' = NoRatio /\ train_epoch_loss' = NoRatio

Init == \E s \in {"cls", "ada"} : Blank(s, NoFile)

----------------------------------------------------------------------------
\* The classification script

\* len(eval_dataloader) after accelerator.prepare: the batches of the validation
\* set are dealt out to the workers, every worker getting the same number.
EvalLen(M, bs, W) == CeilDiv(CeilDiv(M, bs), W)

\* Number of (prediction, label) pairs accelerator.gather returns at evaluation
\* step s.  With several workers every worker contributes a full batch at every
\* step (the sharded sampler completes short and missing batches with examples
\* from the start of the set); a single worker's last batch is the remainder.
GatherSize(s, M, bs, W) == IF W > 1 THEN bs * W ELSE Min(bs, M - s * bs)

\* Length of x[:k] for a sequence x of n elements.
SliceLen(n, k) == IF k >= 0 THEN Min(n, k) ELSE Max(0, n + k)

\* predictions[: len(eval_dataloader.dataset) - samples_seen]
\* The cut without the running count.
TrimLenWhole(n, M, seen) == SliceLen(n, M)
TrimLen(n, M, seen) == SliceLen(n, M - seen)

\* samples_seen += references.shape[0]
SeenAfter(seen, n) == seen + n

\* The step number counted within the epoch only.
TotalStepsInEpoch(e, B, s) == s + 1
\* total_steps = epoch * len(train_dataloader) + step + 1
TotalSteps(e, B, s) == e * B + s + 1

\* total_steps % args.log_interval == 0
LogDue(t, N) == t % N = 0

\* The bundle torch.save writes.
Bundle(e, m, o, sch, l) ==
    [exists |-> TRUE, epoch |-> e, model_state_dict |-> m, optimizer_state_dict |-> o,
     lr_scheduler_state_dict |-> sch, loss |-> l]

\* A test that takes any flag value for a request.
LoadRequestedAlways(flag) == TRUE
\* args.load_checkpoint == "True"
LoadRequested(flag) == flag = "True"

\* os.path.exists(args.checkpoint_dir)
PathExists(f) == f.exists

\* A load that leaves the fresh parameters in place.
LoadedModelFresh(ckpt) == 0
\* model.load_state_dict(checkpoint['model_state_dict'])
LoadedModel(ckpt) == ckpt.model_state_dict

\* optimizer.load_state_dict(checkpoint['optimizer_state_dict'])
LoadedOptimizer(ckpt) == ckpt.optimizer_state_dict

\* The save decided by the epoch alone.
SaveTakenAnyFlag(flag, e, E) == e = E - 1
\* args.save_checkpoint == "True" and epoch == args.num_train_epochs - 1
SaveTaken(flag, e, E) == flag = "True" /\ e = E - 1

\* Lines 97-190: arguments, data, model, optimizer, scheduler.
ClsSetup ==
    /\ script = "cls" /\ pc = "start"
    /\ \E E \in 1..MaxEpochs, B \in 1..MaxTrainBatches, N \in 1..MaxLogInterval,
          ld \in FlagValues :
         /\ args' = [NoArgs EXCEPT !.num_train_epochs = E, !.log_interval = N,
                                   !.load_checkpoint = ld]
         /\ len_train' = B
         /\ optimizer' = FreshOptimizer(B * E)
         /\ lr_scheduler' = FreshScheduler(B * E)
    /\ model' = 0
    /\ pc' = "load_checkpoint"
    /\ UNCHANGED <<script, num_processes, len_eval_dataset, loopVars, grads, calls,
                   ioVars, evalVars, adaVars, aggVars>>

\* Lines 192-200.
ClsLoadCheckpoint ==
    /\ script = "cls" /\ pc = "load_checkpoint"
    /\ IF LoadRequested(args.load_checkpoint)
       THEN IF PathExists(fs)
            THEN /\ fs_ops' = fs_ops \o <<"exists", "load">>
                 /\ model' = LoadedModel(fs)
                 /\ optimizer' = LoadedOptimizer(fs)
                 /\ epoch' = fs.epoch
                 /\ loss' = fs.loss
            ELSE /\ fs_ops' = Append(fs_ops, "exists")
                 /\ UNCHANGED <<model, optimizer, epoch, loss>>
       ELSE UNCHANGED <<fs_ops, model, optimizer, epoch, loss>>
    /\ pc' = "start_run"
    /\ UNCHANGED <<script, args, num_processes, len_train, len_eval_dataset,
                   epoch_it, step, total_loss, total_steps, lr_scheduler, grads, calls,
                   fs, mlflow, evalVars, adaVars, aggVars>>

\* Lines 202-215.
ClsStartRun ==
    /\ script = "cls" /\ pc = "start_run"
    /\ mlflow' = mlflow \o StartRunEvents
    /\ pc' = "epoch"
    /\ UNCHANGED <<script, args, num_processes, len_train, len_eval_dataset,
                   loopVars, nnVars, fs, fs_ops, evalVars, adaVars, aggVars>>

\* Lines 216-219, and 238-242 when the loop is left.
ClsEpoch ==
    /\ script = "cls" /\ pc = "epoch"
    /\ IF epoch_it < args.num_train_epochs
       THEN /\ epoch' = epoch_it
            /\ epoch_it' = epoch_it + 1
            /\ total_loss' = 0
            /\ step' = 0
            /\ pc' = "forward"
       ELSE /\ pc' = "after_train"
            /\ UNCHANGED <<epoch, epoch_it, total_loss, step>>
    /\ UNCHANGED <<script, args, num_processes, len_train, len_eval_dataset,
                   loss, total_steps, nnVars, ioVars, evalVars, adaVars, aggVars>>

\* Lines 221-225.
ClsForward ==
    /\ script = "cls" /\ pc = "forward"
    /\ loss' = LossFn(model, DataAt(epoch * len_train + step))
    /\ total_loss' = total_loss + loss'
    /\ calls' = Called("forward")
    /\ pc' = PhaseAfter(script, "forward")
    /\ UNCHANGED <<script, args, num_processes, len_train, len_eval_dataset,
                   epoch, epoch_it, step, total_steps, model, optimizer, lr_scheduler,
                   grads, ioVars, evalVars, adaVars, aggVars>>

\* Line 226.
ClsBackward ==
    /\ script = "cls" /\ pc = "backward"
    /\ grads' = GradOf(epoch * len_train + step + 1, loss)
    /\ calls' = Called("backward")
    /\ pc' = PhaseAfter(script, "backward")
    /\ UNCHANGED <<script, args, num_processes, len_train, len_eval_dataset,
                   loopVars, model, optimizer, lr_scheduler,
                   ioVars, evalVars, adaVars, aggVars>>

\* Line 227.
ClsOptimizerStep ==
    /\ script = "cls" /\ pc = "optimizer_step"
    /\ model' = OptParams(model, optimizer, grads)
    /\ optimizer' = [optimizer EXCEPT !.state = OptMoments(optimizer, grads)]
    /\ calls' = Called("optimizer_step")
    /\ pc' = PhaseAfter(script, "optimizer_step")
    /\ UNCHANGED <<script, args, num_processes, len_train, len_eval_dataset,
                   loopVars, lr_scheduler, grads, ioVars, evalVars, adaVars, aggVars>>

\* Line 228.
ClsSchedulerStep ==
    /\ script = "cls" /\ pc = "scheduler_step"
    /\ lr_scheduler' = [lr_scheduler EXCEPT !.last_epoch = @ + 1]
    /\ optimizer' = [optimizer EXCEPT
                       !.lr = LrLambda(lr_scheduler.num_training_steps,
                                       lr_scheduler.last_epoch + 1)]
    /\ calls' = Called("scheduler_step")
    /\ pc' = PhaseAfter(script, "scheduler_step")
    /\ UNCHANGED <<script, args, num_processes, len_train, len_eval_dataset,
                   loopVars, model, grads, ioVars, evalVars, adaVars, aggVars>>

\* The three samples of lines 234-236.
ClsStepMetrics(t, l) ==
    <<Event("log_metric", "throughput", t, 0, 0), Event("log_metric", "loss", t, l, 0),
      Event("log_metric", "lr", t, 0, 0)>>

\* Lines 229-236, and the loop's advance.  The wall-clock figures (elapsed, the
\* throughput value, the epoch runtimes) are not kept: the reporter's samples are
\* recorded by name and step index.
ClsZeroGradAndLog ==
    /\ script = "cls" /\ pc = "zero_grad"
    /\ grads' = NoGrads
    /\ calls' = Called("zero_grad")
    /\ total_steps' = TotalSteps(epoch, len_train, step)
    /\ mlflow' = IF LogDue(total_steps', args.log_interval)
                 THEN mlflow \o ClsStepMetrics(total_steps', loss)
                 ELSE mlflow
    /\ IF step + 1 < len_train
       THEN step' = step + 1 /\ pc' = "forward"
       ELSE step' = step /\ pc' = "epoch"
    /\ UNCHANGED <<script, args, num_processes, len_train, len_eval_dataset,
                   epoch, epoch_it, loss, total_loss, model, optimizer, lr_scheduler,
                   fs, fs_ops, evalVars, adaVars, aggVars>>

\* An exception in the forward or the backward pass ends the run.
ClsFail ==
    /\ script = "cls" /\ pc \in {"forward", "backward"}
    /\ pc' = "failed"
    /\ UNCHANGED <<script, args, num_processes, len_train, len_eval_dataset,
                   loopVars, nnVars, ioVars, evalVars, adaVars, aggVars>>

\* The evaluation inputs tried: every size after the shortest training run, a
\* few small ones (one or two workers, batches of one or two) after any other.
ClsEvalSets ==
    IF args.num_train_epochs = 1 /\ len_train = 1 /\ args.log_interval = 1
       /\ args.load_checkpoint # "True"
    THEN [M : 1..MaxEvalSet, bs : 1..MaxEvalBatch, W : 1..MaxWorkers]
    ELSE [M : 1..SmallEvalSet, bs : 1..2, W : 1..2]

\* Lines 243-249.
ClsAfterTrain ==
    /\ script = "cls" /\ pc = "after_train"
    /\ mlflow' = mlflow \o <<Event("log_metric", "epoch_time", None, 0, 0),
                             Event("log_metric", "avg_throughput", None, 0, 0)>>
    /\ samples_seen' = 0
    /\ \E e \in ClsEvalSets :
         /\ len_eval_dataset' = e.M
         /\ args' = [args EXCEPT !.per_device_eval_batch_size = e.bs]
         /\ num_processes' = e.W
    /\ step' = 0
    /\ pc' = "eval"
    /\ UNCHANGED <<script, len_train, epoch, epoch_it, loss, total_loss, total_steps,
                   nnVars, fs, fs_ops, eval_loss, eval_preds, total, adaVars, aggVars>>

\* Lines 250-271: one evaluation batch.
ClsEvalStep ==
    /\ script = "cls" /\ pc = "eval"
    /\ LET M == len_eval_dataset
           bs == args.per_device_eval_batch_size
           W == num_processes
           L == EvalLen(M, bs, W)
           n == GatherSize(step, M, bs, W)
           last == (step = L - 1)
           kept == IF W > 1 /\ last THEN TrimLen(n, M, samples_seen) ELSE n
       IN /\ samples_seen' = IF W > 1 /\ ~last THEN SeenAfter(samples_seen, n)
                             ELSE samples_seen
          /\ mlflow' = Append(mlflow, Event("log_metric", "accuracy", None, 0, kept))
          /\ IF step + 1 < L
             THEN step' = step + 1 /\ pc' = "eval"
             ELSE step' = step /\ pc' = "end_run"
    /\ UNCHANGED <<script, args, num_processes, len_train, len_eval_dataset,
                   epoch, epoch_it, loss, total_loss, total_steps, nnVars, fs, fs_ops,
                   eval_loss, eval_preds, total, adaVars, aggVars>>

\* Line 272.
ClsEndRun ==
    /\ script = "cls" /\ pc = "end_run"
    /\ mlflow' = Append(mlflow, Event("end_run", "", None, 0, 0))
    /\ pc' = "save_checkpoint"
    /\ UNCHANGED <<script, args, num_processes, len_train, len_eval_dataset,
                   loopVars, nnVars, fs, fs_ops, evalVars, adaVars, aggVars>>

\* Lines 274-284.
ClsSaveCheckpoint ==
    /\ script = "cls" /\ pc = "save_checkpoint"
    /\ \E sv \in FlagValues :
         /\ args' = [args EXCEPT !.save_checkpoint = sv]
         /\ IF SaveTaken(sv, epoch, args.num_train_epochs)
            THEN /\ fs' = Bundle(args.num_train_epochs - 1, model, optimizer,
                                 lr_scheduler, loss)
                 /\ fs_ops' = fs_ops \o <<"makedirs", "save">>
            ELSE UNCHANGED <<fs, fs_ops>>
    /\ pc' = "done"
    /\ UNCHANGED <<script, num_processes, len_train, len_eval_dataset,
                   loopVars, nnVars, mlflow, evalVars, adaVars, aggVars>>

\* The script is started again; the checkpoint path keeps what it holds.
ClsNewRun ==
    /\ script = "cls" /\ pc \in {"done", "failed"}
    /\ Restart("cls", fs)

NextCls ==
    \/ ClsSetup \/ ClsLoadCheckpoint \/ ClsStartRun \/ ClsEpoch
    \/ ClsForward \/ ClsBackward \/ ClsOptimizerStep \/ ClsSchedulerStep
    \/ ClsZeroGradAndLog \/ ClsFail \/ ClsAfterTrain \/ ClsEvalStep
    \/ ClsEndRun \/ ClsSaveCheckpoint \/ ClsNewRun

----------------------------------------------------------------------------
\* The AdaLoRA script

\* dataset["train"].train_test_split(test_size=0.1): the test split takes a tenth, rounded up.
TestSplit(n) == CeilDiv(n, 10)

\* len(DataLoader(dataset of n examples, batch_size=batch_size))
LoaderLen(n) == CeilDiv(n, batch_size)

\* Number of examples in batch s of a loader over n examples.
BatchLen(s, n) == Min(batch_size, n - s * batch_size)

\* The epoch's own step index handed over instead.
AllocArgEpochStep(g, s) == s
\* The step number handed to update_and_allocate at global step g, step s of the epoch.
AllocArg(g, s) == g

\* A counter that skips every other value.
NextGlobalStepSkip(g) == g + 2
\* global_step += 1
NextGlobalStep(g) == g + 1

\* Whether the budget reallocation called with global step g changes the allocation.
Reallocates(g) == tinit <= g /\ g <= tfinal /\ g % deltaT = 0

\* The rank allocation after the call: one more component pruned, down to the target.
RankAfter(r, g) == IF Reallocates(g) THEN Max(target_r, r - 1) ELSE r

DatasetSizes == (2..MaxDataset) \cup {LongRunDataset}

\* Lines 22-127.
AdaSetup ==
    /\ script = "ada" /\ pc = "start"
    /\ \E n \in DatasetSizes :
         /\ len_eval_dataset' = TestSplit(n)
         /\ len_train_dataset' = n - TestSplit(n)
         /\ len_train' = LoaderLen(n - TestSplit(n))
         /\ len_eval' = LoaderLen(TestSplit(n))
    /\ mlflow' = mlflow \o StartRunEvents
    /\ model' = 0
    /\ optimizer' = FreshOptimizer(len_train' * num_epochs)
    /\ lr_scheduler' = FreshScheduler(len_train' * num_epochs)
    /\ total_step' = len_train' * num_epochs
    /\ rank' = init_r
    /\ global_step' = 0
    /\ pc' = "epoch"
    /\ UNCHANGED <<script, args, num_processes, loopVars, grads, calls, fs, fs_ops,
                   evalVars, realloc, alloc_arg, aggVars>>

\* Lines 130-133, and the loop's exit.
AdaEpoch ==
    /\ script = "ada" /\ pc = "epoch"
    /\ IF epoch_it < num_epochs
       THEN /\ epoch' = epoch_it
            /\ epoch_it' = epoch_it + 1
            /\ total_loss' = 0
            /\ step' = 0
            /\ pc' = "forward"
       ELSE /\ pc' = "end_run"
            /\ UNCHANGED <<epoch, epoch_it, total_loss, step>>
    /\ UNCHANGED <<script, args, num_processes, len_train, len_eval_dataset,
                   loss, total_steps, nnVars, ioVars, evalVars, adaVars, aggVars>>

\* Lines 135-138.
AdaForward ==
    /\ script = "ada" /\ pc = "forward"
    /\ loss' = LossFn(model, DataAt(global_step))
    /\ total_loss' = total_loss + loss'
    /\ calls' = Called("forward")
    /\ pc' = PhaseAfter(script, "forward")
    /\ UNCHANGED <<script, args, num_processes, len_train, len_eval_dataset,
                   epoch, epoch_it, step, total_steps, model, optimizer, lr_scheduler,
                   grads, ioVars, evalVars, adaVars, aggVars>>

\* Line 139.
AdaBackward ==
    /\ script = "ada" /\ pc = "backward"
    /\ grads' = GradOf(global_step + 1, loss)
    /\ calls' = Called("backward")
    /\ pc' = PhaseAfter(script, "backward")
    /\ UNCHANGED <<script, args, num_processes, len_train, len_eval_dataset,
                   loopVars, model, optimizer, lr_scheduler,
                   ioVars, evalVars, adaVars, aggVars>>

\* Line 140.
AdaOptimizerStep ==
    /\ script = "ada" /\ pc = "optimizer_step"
    /\ model' = OptParams(model, optimizer, grads)
    /\ optimizer' = [optimizer EXCEPT !.state = OptMoments(optimizer, grads)]
    /\ calls' = Called("optimizer_step")
    /\ pc' = PhaseAfter(script, "optimizer_step")
    /\ UNCHANGED <<script, args, num_processes, len_train, len_eval_dataset,
                   loopVars, lr_scheduler, grads, ioVars, evalVars, adaVars, aggVars>>

\* Line 141.
AdaSchedulerStep ==
    /\ script = "ada" /\ pc = "scheduler_step"
    /\ lr_scheduler' = [lr_scheduler EXCEPT !.last_epoch = @ + 1]
    /\ optimizer' = [optimizer EXCEPT
                       !.lr = LrLambda(lr_scheduler.num_training_steps,
                                       lr_scheduler.last_epoch + 1)]
    /\ calls' = Called("scheduler_step")
    /\ pc' = PhaseAfter(script, "scheduler_step")
    /\ UNCHANGED <<script, args, num_processes, len_train, len_eval_dataset,
                   loopVars, model, grads, ioVars, evalVars, adaVars, aggVars>>

\* Line 144.
AdaUpdateAndAllocate ==
    /\ script = "ada" /\ pc = "update_and_allocate"
    /\ alloc_arg' = AllocArg(global_step, step)
    /\ rank' = RankAfter(rank, alloc_arg')
    /\ realloc' = IF Reallocates(alloc_arg') THEN realloc \cup {alloc_arg'} ELSE realloc
    /\ calls' = Called("update_and_allocate")
    /\ pc' = PhaseAfter(script, "update_and_allocate")
    /\ UNCHANGED <<script, args, num_processes, len_train, len_eval_dataset,
                   loopVars, model, optimizer, lr_scheduler, grads, ioVars, evalVars,
                   global_step, total_step, len_train_dataset, len_eval, aggVars>>

\* Lines 145-146, and the loop's advance.
AdaZeroGrad ==
    /\ script = "ada" /\ pc = "zero_grad"
    /\ grads' = NoGrads
    /\ calls' = Called("zero_grad")
    /\ global_step' = NextGlobalStep(global_step)
    /\ IF step + 1 < len_train
       THEN step' = step + 1 /\ pc' = "forward"
       ELSE step' = step /\ pc' = "epoch_metrics"
    /\ UNCHANGED <<script, args, num_processes, len_train, len_eval_dataset,
                   epoch, epoch_it, loss, total_loss, total_steps,
                   model, optimizer, lr_scheduler, ioVars, evalVars,
                   total_step, rank, realloc, alloc_arg, len_train_dataset, len_eval,
                   aggVars>>

\* The five samples of lines 159-163.
AdaEpochSamples ==
    <<Event("log_metric", "loss", None, 0, 0), Event("log_metric", "total_loss", None, 0, 0),
      Event("log_metric", "train_runtime", None, 0, 0),
      Event("log_metric", "train_samples_per_second", None, 0, 0),
      Event("log_metric", "train_steps_per_second", None, 0, 0)>>

\* Lines 152, 153 and 156.
SamplesPerSecond(B, n, t) == Ratio(B, t)
StepsPerSecond(B, t) == Ratio(B, t)
AvgLoss(tl, B) == Ratio(tl, B)

\* Lines 178 and 180.
EvalEpochLoss(el, B, L) == Ratio(el, B)
TrainEpochLoss(tl, B, L) == Ratio(tl, L)

\* Lines 148-167.
AdaEpochMetrics ==
    /\ script = "ada" /\ pc = "epoch_metrics"
    /\ \E t \in 1..MaxRuntime : epoch_runtime' = t
    /\ samples_per_second' = SamplesPerSecond(len_train, len_train_dataset, epoch_runtime')
    /\ steps_per_second' = StepsPerSecond(len_train, epoch_runtime')
    /\ avg_loss' = AvgLoss(total_loss, len_train)
    /\ mlflow' = mlflow \o AdaEpochSamples
    /\ eval_loss' = 0
    /\ eval_preds' = 0
    /\ step' = 0
    /\ pc' = "eval"
    /\ UNCHANGED <<script, args, num_processes, len_train, len_eval_dataset,
                   epoch, epoch_it, loss, total_loss, total_steps, nnVars, fs, fs_ops,
                   samples_seen, total, adaVars, eval_epoch_loss, train_epoch_loss>>

\* Lines 168-176: one evaluation batch.
AdaEvalStep ==
    /\ script = "ada" /\ pc = "eval"
    /\ loss' = LossFn(model, DataAt(step))
    /\ eval_loss' = eval_loss + loss'
    /\ eval_preds' = eval_preds + BatchLen(step, len_eval_dataset)
    /\ IF step + 1 < len_eval
       THEN step' = step + 1 /\ pc' = "eval"
       ELSE step' = step /\ pc' = "eval_end"
    /\ UNCHANGED <<script, args, num_processes, len_train, len_eval_dataset,
                   epoch, epoch_it, total_loss, total_steps, nnVars, ioVars,
                   samples_seen, total, adaVars, aggVars>>

\* Lines 178-182.
AdaEvalEnd ==
    /\ script = "ada" /\ pc = "eval_end"
    /\ eval_epoch_loss' = EvalEpochLoss(eval_loss, len_train, len_eval)
    /\ train_epoch_loss' = TrainEpochLoss(total_loss, len_train, len_eval)
    /\ pc' = "epoch"
    /\ UNCHANGED <<script, args, num_processes, len_train, len_eval_dataset,
                   loopVars, nnVars, ioVars, evalVars, adaVars,
                   epoch_runtime, samples_per_second, steps_per_second, avg_loss>>

\* Line 183; leaving the with block afterwards finds no active run to end.
AdaEndRun ==
    /\ script = "ada" /\ pc = "end_run"
    /\ mlflow' = Append(mlflow, Event("end_run", "", None, 0, 0))
    /\ pc' = "accuracy"
    /\ UNCHANGED <<script, args, num_processes, len_train, len_eval_dataset,
                   loopVars, nnVars, fs, fs_ops, evalVars, adaVars, aggVars>>

\* An exception in the forward or the backward pass leaves the with block, whose
\* exit ends the active run, and ends the script.
AdaFail ==
    /\ script = "ada" /\ pc \in {"forward", "backward"}
    /\ mlflow' = Append(mlflow, Event("end_run", "", None, 0, 0))
    /\ pc' = "failed"
    /\ UNCHANGED <<script, args, num_processes, len_train, len_eval_dataset,
                   loopVars, nnVars, fs, fs_ops, evalVars, adaVars, aggVars>>

\* Number of pairs zip() yields from a predictions and b labels.
ZipLen(a, b) == Min(a, b)

\* Lines 186-224: the accuracy loop, then saving and reloading the adapter.
AdaAccuracy ==
    /\ script = "ada" /\ pc = "accuracy"
    /\ total' = ZipLen(eval_preds, len_eval_dataset)
    /\ pc' = "done"
    /\ UNCHANGED <<script, args, num_processes, len_train, len_eval_dataset,
                   loopVars, nnVars, ioVars, samples_seen, eval_loss, eval_preds,
                   adaVars, aggVars>>

NextAda ==
    \/ AdaSetup \/ AdaEpoch \/ AdaForward \/ AdaBackward \/ AdaOptimizerStep
    \/ AdaSchedulerStep \/ AdaUpdateAndAllocate \/ AdaZeroGrad \/ AdaEpochMetrics
    \/ AdaEvalStep \/ AdaEvalEnd \/ AdaEndRun \/ AdaAccuracy \/ AdaFail

Next == NextCls \/ NextAda

Spec == Init /\ [][Next]_vars

----------------------------------------------------------------------------
\* Reading the state

RECURSIVE SumN(_)
SumN(q) == IF q = <<>> THEN 0 ELSE Head(q).n + SumN(Tail(q))

Samples(name) == SelectSeq(mlflow, LAMBDA e : e.op = "log_metric" /\ e.name = name)

InSeq(x, q) == \E i \in 1..Len(q) : q[i] = x

Count(x, q) == Cardinality({i \in 1..Len(q) : q[i] = x})

ClsEvalDone == script = "cls" /\ pc \in {"end_run", "save_checkpoint", "done"}

\* The run restored a checkpoint and has not yet written one.
ClsLoaded == script = "cls" /\ InSeq("load", fs_ops) /\ ~InSeq("save", fs_ops)

----------------------------------------------------------------------------
\* C1: one evaluation pass grades exactly as many (prediction, label) pairs as the
\* validation set has examples, for every set size, batch size and worker count:
\* in the classification script the pairs behind the accuracy samples of the pass
\* add up to len(eval_dataloader.dataset), and with several workers samples_seen
\* is what the batches before the last one gathered; in the AdaLoRA script the
\* accuracy loop counts len(validation) pairs.
C1_GradesWholeSet ==
    /\ ClsEvalDone => SumN(Samples("accuracy")) = len_eval_dataset
    /\ (ClsEvalDone /\ num_processes > 1) =>
          samples_seen = (EvalLen(len_eval_dataset, args.per_device_eval_batch_size,
                                  num_processes) - 1)
                         * args.per_device_eval_batch_size * num_processes
    /\ (script = "ada" /\ pc = "done") => total = len_eval_dataset

\* The scenario of the specification: batch size 8, 2 workers, 17 examples, where
\* the two gathered batches hold 32 pairs.
C1_Witness ==
    /\ ClsEvalDone /\ len_eval_dataset = 17 /\ args.per_device_eval_batch_size = 8
    /\ num_processes = 2 /\ samples_seen = 16
    /\ SumN(Samples("accuracy")) = 17

----------------------------------------------------------------------------
\* C2: the budget reallocation changes the allocation exactly at the global steps
\* g it was called with that satisfy tinit <= g <= tfinal and deltaT | g, and at
\* no other call; a run of 2000 steps reallocates exactly at 200, 210, ..., 1000.
C2_ReallocationWindow ==
    script = "ada" =>
      /\ realloc = {g \in tinit..Min(tfinal, calls.update_and_allocate - 1) :
                      g % deltaT = 0}
      /\ (pc = "done" /\ total_step = 2000) =>
            realloc = {200 + 10 * k : k \in 0..80}

C2_Witness ==
    /\ script = "ada" /\ pc = "done" /\ total_step = 2000
    /\ calls.update_and_allocate = 2000
    /\ realloc = {200 + 10 * k : k \in 0..80}
    /\ rank = target_r

----------------------------------------------------------------------------
\* C3: a checkpoint written by a run holds the model and optimizer state that run
\* ended its training with, and a run that loads it starts training from exactly
\* that state, so that its first training step has the loss those parameters
\* give on its batch: the loss continued training would have had on that batch.
C3_RoundTrip ==
    /\ (script = "cls" /\ InSeq("save", fs_ops)) =>
          /\ fs.exists
          /\ fs.model_state_dict = model
          /\ fs.optimizer_state_dict = optimizer
    /\ (ClsLoaded /\ calls.optimizer_step = 0) =>
          /\ model = fs.model_state_dict
          /\ optimizer = fs.optimizer_state_dict
    /\ (ClsLoaded /\ calls.forward = 1 /\ calls.optimizer_step = 0) =>
          loss = LossFn(fs.model_state_dict, DataAt(0))

\* A run has loaded parameters that differ from the fresh ones and made its first
\* forward pass.
C3_Witness ==
    /\ ClsLoaded /\ calls.forward = 1 /\ calls.optimizer_step = 0
    /\ fs.model_state_dict # 0
    /\ loss = LossFn(fs.model_state_dict, DataAt(0))
    /\ loss # LossFn(0, DataAt(0))

----------------------------------------------------------------------------
\* C4: the checkpoint path is read only when load_checkpoint is "True"; when it is
\* and the path does not exist, nothing is loaded and model and optimizer go into
\* training freshly initialised; when it is and the path exists, model and
\* optimizer are the stored ones before the first training step.
C4_LoadCheckpoint ==
    (script = "cls" /\ pc \notin {"start", "load_checkpoint", "done"}) =>
      /\ args.load_checkpoint # "True" => fs_ops = <<>>
      /\ (args.load_checkpoint = "True" /\ ~fs.exists) => fs_ops = <<"exists">>
      /\ (args.load_checkpoint = "True" /\ fs.exists) => fs_ops = <<"exists", "load">>
      /\ (calls.optimizer_step = 0 /\ ~InSeq("load", fs_ops)) =>
            /\ model = 0
            /\ optimizer = FreshOptimizer(args.num_train_epochs * len_train)
      /\ (calls.forward = 0 /\ InSeq("load", fs_ops)) =>
            /\ model = fs.model_state_dict
            /\ optimizer = fs.optimizer_state_dict

\* A run asked to load from a path that does not exist is in its first training
\* step, with fresh state.
C4_Witness ==
    /\ script = "cls" /\ pc = "backward" /\ calls.forward = 1
    /\ args.load_checkpoint = "True" /\ ~fs.exists
    /\ fs_ops = <<"exists">> /\ model = 0

----------------------------------------------------------------------------
\* C5: a run writes the checkpoint at most once, only with save_checkpoint "True",
\* only after every training step of every epoch is complete (so never in a run
\* that failed), and the bundle holds the last epoch index, the model, optimizer
\* and scheduler state and the loss of the last training step.
C5_SaveCheckpoint ==
    /\ (script = "cls" /\ pc # "done") => ~InSeq("save", fs_ops)
    /\ (script = "cls" /\ InSeq("save", fs_ops)) =>
          /\ args.save_checkpoint = "True"
          /\ Count("save", fs_ops) = 1
          /\ epoch = args.num_train_epochs - 1
          /\ epoch_it = args.num_train_epochs
          /\ calls.zero_grad = args.num_train_epochs * len_train
          /\ calls.forward = calls.zero_grad
          /\ fs = Bundle(args.num_train_epochs - 1, model, optimizer, lr_scheduler, loss)
          /\ \A i \in 1..Len(mlflow) :
                (mlflow[i].name = "loss" /\ mlflow[i].step = calls.zero_grad) =>
                    fs.loss = mlflow[i].value
          /\ len_train = 1 => fs.loss = total_loss
    /\ (script = "cls" /\ pc = "done" /\ args.save_checkpoint = "True") =>
          InSeq("save", fs_ops)

\* A run of two epochs of two steps has written its checkpoint, and the reporter
\* holds the loss of step 4.
C5_Witness ==
    /\ script = "cls" /\ pc = "done" /\ InSeq("save", fs_ops)
    /\ args.num_train_epochs = 2 /\ len_train = 2 /\ fs.epoch = 1
    /\ \E i \in 1..Len(mlflow) : mlflow[i].name = "loss" /\ mlflow[i].step = 4

----------------------------------------------------------------------------
\* C6: a finished run has given the reporter exactly one accuracy sample per
\* epoch, each computed over the whole validation set.
C6_OneAccuracyPerEpoch ==
    /\ (script = "cls" /\ pc = "done") =>
          /\ Len(Samples("accuracy")) = args.num_train_epochs
          /\ \A i \in 1..Len(Samples("accuracy")) :
                Samples("accuracy")[i].n = len_eval_dataset
    /\ (script = "ada" /\ pc = "done") =>
          Len(Samples("accuracy")) = num_epochs

----------------------------------------------------------------------------
\* C7: with log interval N the reporter holds, for each of throughput, loss and
\* lr, one sample for every completed training step whose run-wide number
\* epoch * len(train_dataloader) + step + 1 is a multiple of N and none for any
\* other step; the sample carries that number as its step index, and the indices
\* of each metric strictly increase through the run, epoch boundaries included.
\* No other sample of the run carries a step index.
StepMetrics == {"throughput", "loss", "lr"}

StepsOf(name) == {Samples(name)[i].step : i \in 1..Len(Samples(name))}

C7_PeriodicLogging ==
    (script = "cls" /\ pc \notin {"start", "load_checkpoint"}) =>
      /\ \A name \in StepMetrics :
            /\ StepsOf(name) = {t \in 1..calls.zero_grad : t % args.log_interval = 0}
            /\ \A i \in 1..Len(Samples(name)) - 1 :
                  Samples(name)[i].step < Samples(name)[i + 1].step
      /\ \A i \in 1..Len(mlflow) :
            mlflow[i].step # None => mlflow[i].name \in StepMetrics
      /\ pc \in {"forward", "after_train"} =>
            calls.zero_grad = (epoch_it - 1) * len_train
                              + (IF pc = "forward" THEN step ELSE len_train)

\* Two epochs of two steps with a log interval of 2: samples at steps 2 and 4, the
\* second one from the second epoch.
C7_Witness ==
    /\ script = "cls" /\ pc = "after_train"
    /\ args.log_interval = 2 /\ args.num_train_epochs = 2 /\ len_train = 2
    /\ StepsOf("loss") = {2, 4}
    /\ Len(Samples("lr")) = 2

----------------------------------------------------------------------------
\* C8: after an epoch of the AdaLoRA script, the logged average loss and the
\* training epoch loss are the training loss sum over the number of training
\* batches, the evaluation epoch loss is the evaluation loss sum over the number
\* of evaluation batches, and the samples-per-second figure is the number of
\* training samples over the epoch's duration.
AdaEpochReported == script = "ada" /\ pc = "epoch" /\ epoch_it >= 1

C8_EpochAverages ==
    AdaEpochReported =>
      /\ RatioEq(avg_loss, total_loss, len_train)
      /\ RatioEq(train_epoch_loss, total_loss, len_train)
      /\ RatioEq(eval_epoch_loss, eval_loss, len_eval)
      /\ RatioEq(samples_per_second, len_train_dataset, epoch_runtime)

----------------------------------------------------------------------------
\* C9: in both scripts the statements of a training step run in the order
\* forward and loss, backward, optimizer step, scheduler step, (AdaLoRA: budget
\* reallocation,) zero gradients, each once for every batch; the reallocation
\* finds the gradients of its own step still in place; a step starts only with
\* the gradients zeroed.
C9_StepOrder ==
    /\ calls.forward >= calls.backward
    /\ calls.backward >= calls.optimizer_step
    /\ calls.optimizer_step >= calls.scheduler_step
    /\ IF script = "ada"
       THEN /\ calls.scheduler_step >= calls.update_and_allocate
            /\ calls.update_and_allocate >= calls.zero_grad
       ELSE /\ calls.update_and_allocate = 0
            /\ calls.scheduler_step >= calls.zero_grad
    /\ calls.zero_grad >= calls.forward - 1
    /\ calls.forward > calls.zero_grad => grads.of \in {0, calls.forward}
    /\ calls.backward > calls.zero_grad => grads.of = calls.forward
    /\ calls.forward = calls.zero_grad => grads = NoGrads
    /\ (script = "ada" /\ calls.update_and_allocate > calls.zero_grad) =>
          grads.of = alloc_arg + 1
    /\ pc \in {"after_train", "epoch_metrics"} =>
          /\ calls.zero_grad = epoch_it * len_train
          /\ calls.forward = calls.zero_grad

\* The AdaLoRA script has just reallocated in its fifth step, the gradients of
\* that step in place; and the classification script is between two steps.
C9_Witness ==
    \/ /\ script = "ada" /\ pc = "zero_grad" /\ calls.update_and_allocate = 5
       /\ calls.zero_grad = 4 /\ grads.of = 5 /\ alloc_arg = 4
    \/ /\ script = "cls" /\ pc = "forward" /\ calls.zero_grad = 3 /\ grads = NoGrads

----------------------------------------------------------------------------
\* C10: the AdaLoRA script calls the budget reallocation once in every training
\* step, the k-th call (from 0) with global step k, whatever the epoch; when
\* training is over the calls number num_epochs * len(train_dataloader), which is
\* also peft_config.total_step and the scheduler's number of training steps.
C10_GlobalStep ==
    script = "ada" =>
      /\ calls.update_and_allocate = global_step + (IF pc = "zero_grad" THEN 1 ELSE 0)
      /\ calls.update_and_allocate > 0 => alloc_arg = calls.update_and_allocate - 1
      /\ calls.update_and_allocate = 0 => alloc_arg = None
      /\ pc \in {"forward", "backward", "optimizer_step", "scheduler_step",
                 "update_and_allocate"} =>
            global_step = (epoch_it - 1) * len_train + step
      /\ pc \in {"end_run", "accuracy", "done"} =>
            /\ calls.update_and_allocate = num_epochs * len_train
            /\ calls.forward = num_epochs * len_train
            /\ total_step = num_epochs * len_train
            /\ lr_scheduler.num_training_steps = num_epochs * len_train

\* Eight epochs of two batches: the call in the first step of the second epoch
\* gets global step 2, and the run ends after 16 calls.
C10_Witness ==
    \/ /\ script = "ada" /\ pc = "zero_grad" /\ len_train = 2
       /\ epoch = 1 /\ step = 0 /\ alloc_arg = 2
    \/ /\ script = "ada" /\ pc = "done" /\ len_train = 2
       /\ calls.update_and_allocate = 16 /\ alloc_arg = 15

----------------------------------------------------------------------------
\* C11: in both scripts the reporter's session is opened exactly once, as the
\* first call of the run; every log_param and log_metric call comes after
\* start_run and before end_run; end_run is called at most once and nothing
\* follows it; a run that completes without failure has ended its session.
OpsAt(op) == {i \in 1..Len(mlflow) : mlflow[i].op = op}

SessionOpened ==
    \/ script = "cls" /\ pc \notin {"start", "load_checkpoint", "start_run"}
    \/ script = "ada" /\ pc # "start"

RunCompleted ==
    \/ script = "cls" /\ pc \in {"save_checkpoint", "done"}
    \/ script = "ada" /\ pc \in {"accuracy", "done"}

C11_ReporterSession ==
    LET n == Len(mlflow)
        isLog(i) == mlflow[i].op \in {"log_param", "log_metric"}
    IN /\ IF SessionOpened
          THEN n >= 1 /\ mlflow[1].op = "start_run"
               /\ \A i \in 2..n : mlflow[i].op # "start_run"
          ELSE mlflow = <<>>
       /\ \A i \in 1..n - 1 : mlflow[i].op # "end_run"
       /\ \A i \in 1..n : isLog(i) => (i > 1 /\ mlflow[1].op = "start_run")
       /\ RunCompleted => (n >= 1 /\ mlflow[n].op = "end_run")
       /\ (script = "cls" /\ pc = "failed") => mlflow[n].op # "end_run"

\* Either script has finished: its session is closed, with metrics inside it.
C11_Witness ==
    /\ pc = "done" /\ script \in {"cls", "ada"}
    /\ OpsAt("start_run") = {1} /\ OpsAt("log_param") = {2}
    /\ OpsAt("end_run") = {Len(mlflow)}
    /\ Cardinality(OpsAt("log_metric")) >= 5
    /\ script = "cls" => InSeq("save", fs_ops)

====
